---- MODULE Spec2Model ----
(***************************************************************************)
(* Model of the AllResumes page component (src/page.tsx).                  *)
(*                                                                         *)
(* The component keeps seven pieces of React state, issues one fetch on    *)
(* mount, derives filteredResumes from resumes and four criterion strings  *)
(* in a passive effect, and exports the filtered rows on request.          *)
(*                                                                         *)
(* Strings are sequences of one-character strings so that toLowerCase and  *)
(* includes are computed, not assumed.  A passive effect runs after the    *)
(* render that changed one of its dependencies has been committed, and the *)
(* state it sets is rendered later still: the committed state in between   *)
(* (new criteria, old filteredResumes) is a state of the page, so the      *)
(* effect is a step of its own, scheduled by effectPending.                *)
(***************************************************************************)
EXTENDS Integers, Sequences, FiniteSets, TLC

VARIABLES
    fetchPc,           \* position of fetchResumes: idle, awaitFetch, awaitJson, done, failed
    fetchCalls,        \* number of fetch("/api/resumes") calls issued
    consoleErrors,     \* number of console.error calls
    resumes,           \* useState<ResumeData[]>([])
    filteredResumes,   \* useState<ResumeData[]>([])
    searchTerm,        \* useState("")
    filterType,        \* useState("all")
    skillFilter,       \* useState("")
    locationFilter,    \* useState("")
    experienceFilter,  \* useState("")
    effectPending,     \* the filter effect is scheduled and has not run yet
    crashed,           \* an uncaught exception in render or in the effect tore the page down
    noDataToasts,      \* toast({title: "No Data"}) calls
    successToasts,     \* toast({title: "Success"}) calls
    excelCalls,        \* exportToExcel calls
    lastOp             \* the handler, callback or effect that ran last

vars == <<fetchPc, fetchCalls, consoleErrors, resumes, filteredResumes,
          searchTerm, filterType, skillFilter, locationFilter, experienceFilter,
          effectPending, crashed, noDataToasts, successToasts, excelCalls, lastOp>>

criteria == <<searchTerm, skillFilter, locationFilter, experienceFilter>>

deps == <<resumes, searchTerm, skillFilter, locationFilter, experienceFilter>>

toasts == <<noDataToasts, successToasts>>

-----------------------------------------------------------------------------
(* Bounds *)

MaxRecords == 2        \* longest array the endpoint returns

MaxExports == 1        \* export clicks per page load

-----------------------------------------------------------------------------
(* Strings *)

EmptyString == <<>>

Lower(c) == CASE c = "A" -> "a" [] c = "B" -> "b" [] OTHER -> c

toLowerCase(s) == [i \in 1..Len(s) |-> Lower(s[i])]

includes(s, t) == \E i \in 0..(Len(s) - Len(t)) : SubSeq(s, i + 1, i + Len(t)) = t

\* what the user can type into an input
Terms == {EmptyString, <<"A">>, <<"a", "b">>}

FilterTypes == {"all", "skills", "location", "experience"}

-----------------------------------------------------------------------------
(* Records.  absent names the fields the JSON object does not have; a      *)
(* record that conforms to interface ResumeData has absent = {}.           *)

Exp(title, company) == [absent |-> {}, title |-> title, company |-> company]

Resume(name, email, location, skills, experience) ==
    [absent |-> {}, name |-> name, email |-> email, location |-> location,
     skills |-> skills, experience |-> experience]

Without(r, fields) == [r EXCEPT !.absent = fields]

Ann == Resume(<<"b", "A">>, <<"b">>, <<"B">>, << <<"a">>, <<"b">> >>,
              << Exp(<<"b">>, <<"a">>) >>)

Bea == Resume(<<"b">>, <<"b", "A">>, <<"a", "B">>, << <<"B">>, <<"b", "A", "B">> >>,
              << Exp(<<"B">>, <<"b">>), Exp(<<"A", "b">>, <<"b">>) >>)

Cy == Resume(<<"B">>, <<"b">>, <<"A">>, << >>, << >>)

TypedPool == {Ann, Bea, Cy}

SeqsUpTo(S, n) == UNION {[1..k -> S] : k \in 0..n}

TypedCollections == SeqsUpTo(TypedPool, MaxRecords)

\* JSON objects that lack fields interface ResumeData declares
NoLocation == Without(Bea, {"location"})

NoName == Without(Bea, {"name"})

NoEmail == Without(Ann, {"email"})

NoPersonalInfo == Without(Bea, {"personalInfo"})

NoSkills == Without(Bea, {"skills"})

NoExperience == Without(Bea, {"experience"})

NoTitle == [Bea EXCEPT !.experience[1].absent = {"title"}]

NoCompany == [Bea EXCEPT !.experience[1].absent = {"company"}]

UntypedPool == {Ann, NoLocation, NoName, NoEmail, NoPersonalInfo, NoSkills,
                NoExperience, NoTitle, NoCompany}

UntypedCollections == SeqsUpTo(UntypedPool, MaxRecords)

\* how await fetch(...) can settle: a rejection, a response that is not ok, an ok response
FetchOutcomes == {"networkError", "notOk", "ok"}

-----------------------------------------------------------------------------
(* The filter effect, lines 80-124.  A JavaScript expression evaluates to  *)
(* "true", "false" or "undefined", or throws ("throw").                    *)

Bool(b) == IF b THEN "true" ELSE "false"

\* resume?.personalInfo?.name?.toLowerCase().includes(term)
NameMatches(resume, term) ==
    IF "personalInfo" \in resume.absent \/ "name" \in resume.absent
    THEN "undefined"
    ELSE Bool(includes(toLowerCase(resume.name), term))

\* resume?.personalInfo?.email?.toLowerCase().includes(term)
EmailMatches(resume, term) ==
    IF "personalInfo" \in resume.absent \/ "email" \in resume.absent
    THEN "undefined"
    ELSE Bool(includes(toLowerCase(resume.email), term))

\* resume.skills.some((skill) => skill.toLowerCase().includes(term))
SkillsSome(resume, term) ==
    IF "skills" \in resume.absent
    THEN "throw"
    ELSE Bool(\E i \in 1..Len(resume.skills) :
                 includes(toLowerCase(resume.skills[i]), term))

\* the search callback: name || email || skills.some(...)
SearchCallback(resume, searchTermArg) ==
    LET term == toLowerCase(searchTermArg) IN
    IF NameMatches(resume, term) = "true" THEN "true"
    ELSE IF EmailMatches(resume, term) = "true" THEN "true"
    ELSE SkillsSome(resume, term)

SkillCallback(resume, skillFilterArg) ==
    SkillsSome(resume, toLowerCase(skillFilterArg))

\* the location callback that forgets locationFilter.toLowerCase()
LocationCallbackCaseSensitive(resume, locationFilterArg) ==
    IF "personalInfo" \in resume.absent THEN "throw"
    ELSE IF "location" \in resume.absent THEN "undefined"
    ELSE Bool(includes(toLowerCase(resume.location), locationFilterArg))

\* resume.personalInfo.location?.toLowerCase().includes(locationFilter.toLowerCase())
LocationCallback(resume, locationFilterArg) ==
    IF "personalInfo" \in resume.absent THEN "throw"
    ELSE IF "location" \in resume.absent THEN "undefined"
    ELSE Bool(includes(toLowerCase(resume.location), toLowerCase(locationFilterArg)))

\* exp.title.toLowerCase().includes(f) || exp.company.toLowerCase().includes(f)
ExpCallback(exp, term) ==
    IF "title" \in exp.absent THEN "throw"
    ELSE IF includes(toLowerCase(exp.title), term) THEN "true"
    ELSE IF "company" \in exp.absent THEN "throw"
    ELSE Bool(includes(toLowerCase(exp.company), term))

\* Array.prototype.some: entries in order, stops at the first truthy result
RECURSIVE ExpSome(_, _, _)
ExpSome(exps, term, i) ==
    IF i > Len(exps) THEN "false"
    ELSE LET v == ExpCallback(exps[i], term) IN
         IF v \in {"true", "throw"} THEN v ELSE ExpSome(exps, term, i + 1)

ExperienceCallback(resume, experienceFilterArg) ==
    IF "experience" \in resume.absent THEN "throw"
    ELSE ExpSome(resume.experience, toLowerCase(experienceFilterArg), 1)

Threw == [threw |-> TRUE, list |-> <<>>]

Ok(list) == [threw |-> FALSE, list |-> list]

\* list.filter(cb), given cb's result on every element: an exception in a
\* callback propagates, otherwise the elements with a truthy result are kept
Filter(list, verdicts) ==
    IF \E i \in 1..Len(list) : verdicts[i] = "throw" THEN Threw
    ELSE LET kept == SelectSeq([i \in 1..Len(list) |-> i],
                               LAMBDA i : verdicts[i] = "true") IN
         Ok([k \in 1..Len(kept) |-> list[kept[k]]])

SearchStep(res, term) ==
    IF res.threw \/ term = EmptyString THEN res
    ELSE Filter(res.list, [i \in 1..Len(res.list) |-> SearchCallback(res.list[i], term)])

\* the skill step without its if (skillFilter) guard
SkillStepUnguarded(res, f) ==
    IF res.threw THEN res
    ELSE Filter(res.list, [i \in 1..Len(res.list) |-> SkillCallback(res.list[i], f)])

SkillStep(res, f) ==
    IF res.threw \/ f = EmptyString THEN res
    ELSE Filter(res.list, [i \in 1..Len(res.list) |-> SkillCallback(res.list[i], f)])

LocationStep(res, f) ==
    IF res.threw \/ f = EmptyString THEN res
    ELSE Filter(res.list, [i \in 1..Len(res.list) |-> LocationCallback(res.list[i], f)])

\* the experience step that filters resumes, not the list filtered so far
ExperienceStepFromAll(res, f) ==
    IF res.threw \/ f = EmptyString THEN res
    ELSE Filter(resumes, [i \in 1..Len(resumes) |-> ExperienceCallback(resumes[i], f)])

ExperienceStep(res, f) ==
    IF res.threw \/ f = EmptyString THEN res
    ELSE Filter(res.list, [i \in 1..Len(res.list) |-> ExperienceCallback(res.list[i], f)])

\* the effect body that narrows the previous filtered list instead of resumes
ApplyFiltersIncremental(collection, search, skill, location, experience) ==
    ExperienceStep(LocationStep(SkillStep(SearchStep(Ok(filteredResumes), search), skill),
                                location), experience)

\* the body of the effect up to the value passed to setFilteredResumes
ApplyFilters(collection, search, skill, location, experience) ==
    ExperienceStep(LocationStep(SkillStep(SearchStep(Ok(collection), search), skill),
                                location), experience)

\* the table body, lines 257-305: resume.education.map, resume.skills.slice,
\* resume.experience.map throw on a row that lacks the array
RenderThrows(rows) ==
    \E i \in 1..Len(rows) :
        rows[i].absent \cap {"education", "skills", "experience"} # {}

-----------------------------------------------------------------------------
(* State after the first render: the useState initial values, no effect    *)
(* has run.                                                                *)
Init ==
    /\ fetchPc = "idle"
    /\ fetchCalls = 0
    /\ consoleErrors = 0
    /\ resumes = <<>>
    /\ filteredResumes = <<>>
    /\ searchTerm = EmptyString
    /\ filterType = "all"
    /\ skillFilter = EmptyString
    /\ locationFilter = EmptyString
    /\ experienceFilter = EmptyString
    /\ effectPending = FALSE
    /\ crashed = FALSE
    /\ noDataToasts = 0
    /\ successToasts = 0
    /\ excelCalls = 0
    /\ lastOp = "render"


Live == fetchPc # "idle" /\ ~crashed

\* the two mount effects: fetchResumes() is called, the filter effect runs on []
Mount ==
    /\ fetchPc = "idle"
    /\ fetchPc' = "awaitFetch"
    /\ fetchCalls' = fetchCalls + 1
    /\ filteredResumes' = ApplyFilters(resumes, searchTerm, skillFilter,
                                       locationFilter, experienceFilter).list
    /\ lastOp' = "mount"
    /\ UNCHANGED <<consoleErrors, resumes, searchTerm, filterType, skillFilter,
                   locationFilter, experienceFilter, effectPending, crashed,
                   noDataToasts, successToasts, excelCalls>>

\* a catch block that also raises a toast
FetchCatchToast ==
    /\ fetchPc' = "failed"
    /\ consoleErrors' = consoleErrors + 1
    /\ noDataToasts' = noDataToasts + 1
    /\ UNCHANGED <<resumes, filteredResumes, effectPending, crashed, successToasts>>

\* catch (error) { console.error(...) }
FetchCatch ==
    /\ fetchPc' = "failed"
    /\ consoleErrors' = consoleErrors + 1
    /\ UNCHANGED <<resumes, filteredResumes, effectPending, crashed,
                   noDataToasts, successToasts>>

\* await fetch(...) settles; if (!response.ok) throw
FetchSettles(outcome) ==
    /\ fetchPc = "awaitFetch"
    /\ IF outcome \in {"networkError", "notOk"}
       THEN FetchCatch
       ELSE /\ fetchPc' = "awaitJson"
            /\ UNCHANGED <<consoleErrors, resumes, filteredResumes, effectPending,
                           crashed, noDataToasts, successToasts>>
    /\ lastOp' = "fetchSettles"
    /\ UNCHANGED <<fetchCalls, searchTerm, filterType, skillFilter,
                   locationFilter, experienceFilter, excelCalls>>

\* the success path without setResumes(data)
FetchSuccessNoSetResumes(data) ==
    /\ resumes' = resumes
    /\ filteredResumes' = data
    /\ effectPending' = effectPending

\* setResumes(data); setFilteredResumes(data): data is a new array, so the
\* filter effect's dependency resumes has changed
FetchSuccess(data) ==
    /\ resumes' = data
    /\ filteredResumes' = data
    /\ effectPending' = TRUE

\* await response.json() rejects: the body does not parse
JsonRejects ==
    /\ fetchPc = "awaitJson"
    /\ FetchCatch
    /\ lastOp' = "jsonRejects"
    /\ UNCHANGED <<fetchCalls, searchTerm, filterType, skillFilter,
                   locationFilter, experienceFilter, excelCalls>>

\* await response.json() resolves with data; the render of the new rows may throw
JsonResolves(data) ==
    /\ fetchPc = "awaitJson"
    /\ fetchPc' = "done"
    /\ IF RenderThrows(data)
       THEN /\ crashed' = TRUE
            /\ UNCHANGED <<resumes, filteredResumes, effectPending>>
       ELSE /\ FetchSuccess(data)
            /\ UNCHANGED crashed
    /\ lastOp' = "jsonResolves"
    /\ UNCHANGED <<fetchCalls, consoleErrors, searchTerm, filterType, skillFilter,
                   locationFilter, experienceFilter, noDataToasts, successToasts,
                   excelCalls>>

\* the filter effect, run for the committed state
FilterEffect ==
    /\ Live
    /\ effectPending
    /\ effectPending' = FALSE
    /\ LET res == ApplyFilters(resumes, searchTerm, skillFilter,
                               locationFilter, experienceFilter) IN
       IF res.threw \/ RenderThrows(res.list)
       THEN crashed' = TRUE /\ UNCHANGED filteredResumes
       ELSE filteredResumes' = res.list /\ UNCHANGED crashed
    /\ lastOp' = "filterEffect"
    /\ UNCHANGED <<fetchPc, fetchCalls, consoleErrors, resumes, searchTerm,
                   filterType, skillFilter, locationFilter, experienceFilter,
                   noDataToasts, successToasts, excelCalls>>

\* a state setter ran: the effect is scheduled when a dependency changed
Schedule == effectPending' = (effectPending \/ deps' # deps)

\* onChange={(e) => setSearchTerm(e.target.value)}
SetSearchTerm(value) ==
    /\ Live
    /\ value # searchTerm
    /\ searchTerm' = value
    /\ lastOp' = "setSearchTerm"
    /\ UNCHANGED <<fetchPc, fetchCalls, consoleErrors, resumes, filteredResumes,
                   filterType, skillFilter, locationFilter, experienceFilter, crashed,
                   noDataToasts, successToasts, excelCalls>>
    /\ Schedule

\* onChange={(e) => setSkillFilter(e.target.value)}, shown when filterType === "skills"
SetSkillFilter(value) ==
    /\ Live
    /\ filterType = "skills"
    /\ value # skillFilter
    /\ skillFilter' = value
    /\ lastOp' = "setSkillFilter"
    /\ UNCHANGED <<fetchPc, fetchCalls, consoleErrors, resumes, filteredResumes,
                   searchTerm, filterType, locationFilter, experienceFilter, crashed,
                   noDataToasts, successToasts, excelCalls>>
    /\ Schedule

\* onChange={(e) => setLocationFilter(e.target.value)}, shown when filterType === "location"
SetLocationFilter(value) ==
    /\ Live
    /\ filterType = "location"
    /\ value # locationFilter
    /\ locationFilter' = value
    /\ lastOp' = "setLocationFilter"
    /\ UNCHANGED <<fetchPc, fetchCalls, consoleErrors, resumes, filteredResumes,
                   searchTerm, filterType, skillFilter, experienceFilter, crashed,
                   noDataToasts, successToasts, excelCalls>>
    /\ Schedule

\* onChange={(e) => setExperienceFilter(e.target.value)}, shown when filterType === "experience"
SetExperienceFilter(value) ==
    /\ Live
    /\ filterType = "experience"
    /\ value # experienceFilter
    /\ experienceFilter' = value
    /\ lastOp' = "setExperienceFilter"
    /\ UNCHANGED <<fetchPc, fetchCalls, consoleErrors, resumes, filteredResumes,
                   searchTerm, filterType, skillFilter, locationFilter, crashed,
                   noDataToasts, successToasts, excelCalls>>
    /\ Schedule

\* the Clear Filters button, rendered while some criterion is non-empty
clearFilters ==
    /\ Live
    /\ \E i \in 1..4 : criteria[i] # EmptyString
    /\ searchTerm' = EmptyString
    /\ skillFilter' = EmptyString
    /\ locationFilter' = EmptyString
    /\ experienceFilter' = EmptyString
    /\ filterType' = "all"
    /\ lastOp' = "clearFilters"
    /\ UNCHANGED <<fetchPc, fetchCalls, consoleErrors, resumes, filteredResumes,
                   crashed, noDataToasts, successToasts, excelCalls>>
    /\ Schedule

\* handleFilterTypeChange that resets the search term as well
FilterTypeChangeClearsSearch(value) ==
    IF value = "all"
    THEN <<EmptyString, EmptyString, EmptyString, EmptyString>>
    ELSE <<searchTerm, skillFilter, locationFilter, experienceFilter>>

\* handleFilterTypeChange that resets the criteria on every mode change
FilterTypeChangeAlwaysClears(value) ==
    <<searchTerm, EmptyString, EmptyString, EmptyString>>

\* the criterion values <<search, skill, location, experience>> that
\* handleFilterTypeChange(value) leaves behind
FilterTypeChangeCriteria(value) ==
    IF value = "all"
    THEN <<searchTerm, EmptyString, EmptyString, EmptyString>>
    ELSE <<searchTerm, skillFilter, locationFilter, experienceFilter>>

handleFilterTypeChange(value) ==
    /\ Live
    /\ filterType' = value
    /\ searchTerm' = FilterTypeChangeCriteria(value)[1]
    /\ skillFilter' = FilterTypeChangeCriteria(value)[2]
    /\ locationFilter' = FilterTypeChangeCriteria(value)[3]
    /\ experienceFilter' = FilterTypeChangeCriteria(value)[4]
    /\ lastOp' = "handleFilterTypeChange"
    /\ UNCHANGED <<fetchPc, fetchCalls, consoleErrors, resumes, filteredResumes,
                   crashed, noDataToasts, successToasts, excelCalls>>
    /\ Schedule

\* handleExport without the return after the "No Data" toast
ExportOutcomeNoReturn(rows) ==
    IF Len(rows) = 0 THEN <<1, 1, 1>> ELSE <<0, 1, 1>>

\* what handleExport does with the rows it sees: <<No Data toasts, Success toasts, exportToExcel calls>>
ExportOutcome(rows) ==
    IF Len(rows) = 0 THEN <<1, 0, 0>> ELSE <<0, 1, 1>>

handleExport ==
    /\ Live
    /\ noDataToasts + successToasts < MaxExports
    /\ LET out == ExportOutcome(filteredResumes) IN
        /\ noDataToasts' = noDataToasts + out[1]
        /\ successToasts' = successToasts + out[2]
        /\ excelCalls' = excelCalls + out[3]
    /\ lastOp' = "handleExport"
    /\ UNCHANGED <<fetchPc, fetchCalls, consoleErrors, resumes, filteredResumes,
                   searchTerm, filterType, skillFilter, locationFilter, experienceFilter,
                   effectPending, crashed>>

UserEvent ==
    \/ \E value \in Terms : SetSearchTerm(value)
    \/ \E value \in Terms : SetSkillFilter(value)
    \/ \E value \in Terms : SetLocationFilter(value)
    \/ \E value \in Terms : SetExperienceFilter(value)
    \/ clearFilters
    \/ \E value \in FilterTypes : handleFilterTypeChange(value)
    \/ handleExport

\* the endpoint answers with records that conform to interface ResumeData
Next ==
    \/ Mount
    \/ \E outcome \in FetchOutcomes : FetchSettles(outcome)
    \/ JsonRejects
    \/ \E data \in TypedCollections : JsonResolves(data)
    \/ FilterEffect
    \/ UserEvent

\* the endpoint answers with any JSON array: response.json() is not validated
NextUntyped ==
    \/ Mount
    \/ \E outcome \in FetchOutcomes : FetchSettles(outcome)
    \/ JsonRejects
    \/ \E data \in UntypedCollections : JsonResolves(data)
    \/ FilterEffect
    \/ UserEvent

Spec == Init /\ [][Next]_vars

SpecUntyped == Init /\ [][NextUntyped]_vars

-----------------------------------------------------------------------------
(* What the specification says a criterion matches, stated without         *)
(* toLowerCase: a term occurs in a text when some window of the text       *)
(* agrees with it letter by letter up to case.  An absent field matches    *)
(* nothing.                                                                *)

CasePairs == {{"a", "A"}, {"b", "B"}}

SameLetter(x, y) == x = y \/ {x, y} \in CasePairs

ContainsIgnoringCase(text, term) ==
    \E i \in 0..(Len(text) - Len(term)) :
        \A j \in 1..Len(term) : SameLetter(text[i + j], term[j])

Has(r, fields) == r.absent \cap fields = {}

PassesSearch(r, term) ==
    \/ Has(r, {"personalInfo", "name"}) /\ ContainsIgnoringCase(r.name, term)
    \/ Has(r, {"personalInfo", "email"}) /\ ContainsIgnoringCase(r.email, term)
    \/ Has(r, {"skills"}) /\ \E i \in 1..Len(r.skills) : ContainsIgnoringCase(r.skills[i], term)

PassesSkill(r, term) ==
    Has(r, {"skills"}) /\ \E i \in 1..Len(r.skills) : ContainsIgnoringCase(r.skills[i], term)

PassesLocation(r, term) ==
    Has(r, {"personalInfo", "location"}) /\ ContainsIgnoringCase(r.location, term)

PassesExperience(r, term) ==
    /\ Has(r, {"experience"})
    /\ \E i \in 1..Len(r.experience) :
          \/ Has(r.experience[i], {"title"})
             /\ ContainsIgnoringCase(r.experience[i].title, term)
          \/ Has(r.experience[i], {"company"})
             /\ ContainsIgnoringCase(r.experience[i].company, term)

PassesEvery(r, search, skill, location, experience) ==
    /\ search # EmptyString => PassesSearch(r, search)
    /\ skill # EmptyString => PassesSkill(r, skill)
    /\ location # EmptyString => PassesLocation(r, location)
    /\ experience # EmptyString => PassesExperience(r, experience)

Expected(collection, search, skill, location, experience) ==
    SelectSeq(collection, LAMBDA r : PassesEvery(r, search, skill, location, experience))

\* a is b with some elements removed, the rest in b's order
RECURSIVE IsSubList(_, _)
IsSubList(a, b) ==
    IF a = <<>> THEN TRUE
    ELSE IF b = <<>> THEN FALSE
    ELSE IF Head(a) = Head(b) THEN IsSubList(Tail(a), Tail(b))
    ELSE IsSubList(a, Tail(b))

AllCriteriaEmpty == \A i \in 1..4 : criteria[i] = EmptyString

\* the view the effect would compute with criterion i replaced by term
ViewWith(i, term) ==
    LET c == [criteria EXCEPT ![i] = term] IN
    ApplyFilters(resumes, c[1], c[2], c[3], c[4]).list

-----------------------------------------------------------------------------
(* C1: once the filter effect has run for the current state, the Filtered  *)
(* view is exactly the Collection records that pass every non-empty        *)
(* criterion (search: name or email or a skill; skill: a skill; location:  *)
(* the location; experience: an entry's title or company), by              *)
(* case-insensitive substring matching, whatever the filter mode is.       *)
C1_FilterContract ==
    (~effectPending /\ ~crashed) =>
        filteredResumes = Expected(resumes, searchTerm, skillFilter,
                                   locationFilter, experienceFilter)

\* the effect ran after the fetch with two criteria active in a mode that
\* shows neither, kept one record and removed another
C1_Witness ==
    /\ lastOp = "filterEffect"
    /\ fetchPc = "done"
    /\ searchTerm # EmptyString
    /\ locationFilter # EmptyString
    /\ filterType = "experience"
    /\ 0 < Len(filteredResumes)
    /\ Len(filteredResumes) < Len(resumes)

(* C2: in every reachable state the Filtered view is an order-preserving   *)
(* sub-list of the Collection.                                             *)
C2_SubList == IsSubList(filteredResumes, resumes)

\* a settled view that kept the second of two different fetched records
C2_Witness ==
    /\ lastOp = "filterEffect"
    /\ Len(resumes) = 2
    /\ resumes[1] # resumes[2]
    /\ filteredResumes = <<resumes[2]>>

(* C3 as stated: whenever all four criteria are empty the Filtered view    *)
(* equals the Collection.                                                  *)
C3_Original == AllCriteriaEmpty => filteredResumes = resumes

(* C3 amended: whenever all four criteria are empty and no recomputation   *)
(* of the filter effect is pending, the Filtered view equals the           *)
(* Collection.                                                             *)
C3_EmptyCriteria ==
    (AllCriteriaEmpty /\ ~effectPending /\ ~crashed) => filteredResumes = resumes

\* the effect ran with every criterion empty and restored a fetched Collection
C3_Witness ==
    /\ lastOp = "filterEffect"
    /\ AllCriteriaEmpty
    /\ fetchPc = "done"
    /\ Len(resumes) = MaxRecords
    /\ filteredResumes = resumes

(* C4: recomputing the filter for the current Collection and criteria      *)
(* never throws, and a record that lacks a field an active criterion reads *)
(* is dropped as non-matching.                                             *)
C4_NeverThrows ==
    LET res == ApplyFilters(resumes, searchTerm, skillFilter,
                            locationFilter, experienceFilter) IN
    /\ ~res.threw
    /\ res.list = Expected(resumes, searchTerm, skillFilter,
                           locationFilter, experienceFilter)

(* C5: handleFilterTypeChange("all") empties the skill, location and       *)
(* experience criteria and leaves the search term and the Collection as    *)
(* they were.                                                              *)
C5_ModeAllResets ==
    [][handleFilterTypeChange("all") =>
          /\ skillFilter' = EmptyString
          /\ locationFilter' = EmptyString
          /\ experienceFilter' = EmptyString
          /\ searchTerm' = searchTerm
          /\ resumes' = resumes]_vars

\* the mode was just set to "all" with a search term typed, and the view
\* still shows the effect of a criterion the switch emptied
C5_Witness ==
    /\ lastOp = "handleFilterTypeChange"
    /\ filterType = "all"
    /\ searchTerm # EmptyString
    /\ skillFilter = EmptyString
    /\ effectPending
    /\ Len(filteredResumes) < Len(ViewWith(1, searchTerm))

(* C6: handleExport on an empty Filtered view calls the spreadsheet writer *)
(* zero times, raises exactly one "No Data" toast and no "Success" toast.  *)
C6_EmptyExport ==
    [][(handleExport /\ Len(filteredResumes) = 0) =>
          /\ excelCalls' = excelCalls
          /\ noDataToasts' = noDataToasts + 1
          /\ successToasts' = successToasts]_vars

\* an export was clicked while the criteria filtered out every fetched record
C6_Witness ==
    /\ lastOp = "handleExport"
    /\ fetchPc = "done"
    /\ ~effectPending
    /\ Len(resumes) > 0
    /\ Len(filteredResumes) = 0
    /\ noDataToasts = 1
    /\ excelCalls = 0

(* C7: once the fetch has failed, the Collection and the Filtered view are *)
(* empty in every later state, the failure stays final with exactly one    *)
(* fetch issued, and every toast comes from an export click.               *)
C7_FetchFailure ==
    /\ [](fetchPc = "failed" =>
            /\ resumes = <<>>
            /\ filteredResumes = <<>>
            /\ fetchCalls = 1)
    /\ [][fetchPc = "failed" => fetchPc' = "failed"]_vars
    /\ [][fetchCalls' # fetchCalls => fetchPc = "idle"]_vars
    /\ [][toasts' # toasts => lastOp' = "handleExport"]_vars

\* the fetch failed, then a criterion was typed and the effect ran
C7_Witness ==
    /\ fetchPc = "failed"
    /\ consoleErrors = 1
    /\ searchTerm # EmptyString
    /\ lastOp = "filterEffect"

(* C8: every change of the Collection or of a criterion schedules a        *)
(* recomputation, and whenever a pending recomputation has run, the        *)
(* Filtered view is the filter of the current Collection by the current    *)
(* criteria.                                                               *)
C8_RecomputedFromCollection ==
    [][/\ deps' # deps => effectPending'
       /\ (effectPending /\ ~effectPending' /\ ~crashed') =>
             filteredResumes' = Expected(resumes', searchTerm', skillFilter',
                                         locationFilter', experienceFilter')]_vars

\* the effect ran after the fetch and the view is larger than the view a
\* further criterion would leave: a record the criterion removes is present
C8_Witness ==
    /\ lastOp = "filterEffect"
    /\ fetchPc = "done"
    /\ searchTerm # EmptyString
    /\ skillFilter = EmptyString
    /\ 0 < Len(filteredResumes)
    /\ Len(filteredResumes) < Len(resumes)
    /\ \E t \in Terms : Len(ViewWith(2, t)) < Len(filteredResumes)

(* C9: with the view settled, making any empty criterion non-empty yields  *)
(* a view that is a sub-list of the current one, so never a longer one.    *)
C9_AddingCriterionShrinks ==
    (~effectPending /\ ~crashed) =>
        \A i \in 1..4 : \A t \in Terms :
            criteria[i] = EmptyString =>
                /\ IsSubList(ViewWith(i, t), filteredResumes)
                /\ Len(ViewWith(i, t)) <= Len(filteredResumes)

\* a settled view under a search term and an experience criterion that is
\* strictly shorter than the view under the search term alone
C9_Witness ==
    /\ lastOp = "filterEffect"
    /\ searchTerm # EmptyString
    /\ experienceFilter # EmptyString
    /\ Len(filteredResumes) < Len(ViewWith(4, EmptyString))
    /\ Len(ViewWith(4, EmptyString)) < Len(resumes)

\* the criteria whose input the current mode does not show
Hidden ==
    {i \in 2..4 : filterType # <<"all", "skills", "location", "experience">>[i]}

====
